---------------------------- MODULE Spec2Model ----------------------------
(***************************************************************************)
(* Model of finlab_crypto/strategy.py: the Filter and Strategy decorators  *)
(* (parameter sweep, column identity via str()/eval(), filter composition  *)
(* by _add_filters, and the backtest orchestration).                       *)
(*                                                                         *)
(* Text (parameter names, filter names, dictionary keys produced by str()) *)
(* is a sequence of one-character strings, so that concatenation and       *)
(* parsing are computed and not assumed.                                   *)
(***************************************************************************)
EXTENDS Integers, Sequences, FiniteSets, TLC

VARIABLES filt, strat, call

vars == <<filt, strat, call>>

-----------------------------------------------------------------------------
(* Python values that parameters take.                                     *)
(* t: type tag; k: "fin" for ints, strings and finite floats, else the     *)
(* special float; n: the int, or the float in tenths; s: the string text.  *)

PyInt(n) == [t |-> "int", k |-> "fin", n |-> n, s |-> <<>>]

PyFloat(tenths) == [t |-> "float", k |-> "fin", n |-> tenths, s |-> <<>>]

PyInf == [t |-> "float", k |-> "inf", n |-> 0, s |-> <<>>]

PyNan == [t |-> "float", k |-> "nan", n |-> 0, s |-> <<>>]

PyStr(s) == [t |-> "str", k |-> "fin", n |-> 0, s |-> s]

\* an attribute that was never set on the instance
Unset == [t |-> "unset", k |-> "fin", n |-> 0, s |-> <<>>]

\* the value an eval() that raised stands for
PyError(name) == [t |-> "error", k |-> name, n |-> 0, s |-> <<>>]

IsError(v) == v.t = "error"

-----------------------------------------------------------------------------
(* Ordered dictionaries: a sequence of [key, val], keys distinct.          *)

Keys(d) == [i \in 1..Len(d) |-> d[i].key]

Vals(d) == [i \in 1..Len(d) |-> d[i].val]

HasKey(d, key) == \E i \in 1..Len(d) : d[i].key = key

Get(d, key) == d[CHOOSE i \in 1..Len(d) : d[i].key = key].val

\* d[key] = val : replaces in place, or appends a new key at the end
Put(d, key, val) ==
    IF HasKey(d, key)
    THEN [i \in 1..Len(d) |-> IF d[i].key = key THEN [key |-> key, val |-> val] ELSE d[i]]
    ELSE Append(d, [key |-> key, val |-> val])

\* d.pop(key)
RECURSIVE Pop(_, _)
Pop(d, key) ==
    IF d = <<>> THEN <<>>
    ELSE IF Head(d).key = key THEN Tail(d)
    ELSE <<Head(d)>> \o Pop(Tail(d), key)

-----------------------------------------------------------------------------
(* str(v) of a dict of parameters, as Python's repr produces it.           *)

Digits == <<"0", "1", "2", "3", "4", "5", "6", "7", "8", "9">>

RECURSIVE NatRepr(_)
NatRepr(n) ==
    IF n < 10 THEN <<Digits[n + 1]>>
    ELSE NatRepr(n \div 10) \o <<Digits[(n % 10) + 1]>>

IntRepr(n) == IF n < 0 THEN <<"-">> \o NatRepr(0 - n) ELSE NatRepr(n)

\* repr of a float given in tenths: 25 -> 2.5, 10 -> 1.0, -5 -> -0.5
FloatRepr(v) ==
    IF v.k = "inf" THEN <<"i", "n", "f">>
    ELSE IF v.k = "nan" THEN <<"n", "a", "n">>
    ELSE LET a == IF v.n < 0 THEN 0 - v.n ELSE v.n
         IN  (IF v.n < 0 THEN <<"-">> ELSE <<>>)
             \o NatRepr(a \div 10) \o <<".">> \o <<Digits[(a % 10) + 1]>>

\* repr of a str without quote or backslash characters
StrRepr(s) == <<"'">> \o s \o <<"'">>

Repr(v) ==
    IF v.t = "int" THEN IntRepr(v.n)
    ELSE IF v.t = "float" THEN FloatRepr(v)
    ELSE StrRepr(v.s)

RECURSIVE ItemsRepr(_)
ItemsRepr(d) ==
    IF d = <<>> THEN <<>>
    ELSE StrRepr(Head(d).key) \o <<":", " ">> \o Repr(Head(d).val)
         \o (IF Tail(d) = <<>> THEN <<>> ELSE <<",", " ">> \o ItemsRepr(Tail(d)))

\* str(v) at strategy.py:116/118
DictStr(d) == <<"{">> \o ItemsRepr(d) \o <<"}">>

-----------------------------------------------------------------------------
(* eval(s) of such a text: a Python dict display whose keys and values are *)
(* literals; a bare name is looked up and, not being bound in the scope of *)
(* ret_f, raises NameError.                                                *)

IsDigit(c) == \E i \in 1..10 : Digits[i] = c

DigitVal(c) == (CHOOSE i \in 1..10 : Digits[i] = c) - 1

IsNameChar(c) == ~IsDigit(c) /\ c \notin {"'", "{", "}", ":", ",", " ", ".", "-"}

At(txt, i) == IF i <= Len(txt) THEN txt[i] ELSE ""

\* first position at or after i that holds no digit
RECURSIVE SkipDigits(_, _)
SkipDigits(txt, i) == IF IsDigit(At(txt, i)) THEN SkipDigits(txt, i + 1) ELSE i

\* first position at or after i that ends a name
RECURSIVE SkipName(_, _)
SkipName(txt, i) ==
    IF i <= Len(txt) /\ (IsNameChar(txt[i]) \/ IsDigit(txt[i]))
    THEN SkipName(txt, i + 1) ELSE i

\* position of the closing quote at or after i (Len+1 when there is none)
RECURSIVE FindQuote(_, _)
FindQuote(txt, i) ==
    IF i > Len(txt) \/ txt[i] = "'" THEN i ELSE FindQuote(txt, i + 1)

\* the number written by the digits txt[i..j-1]
RECURSIVE NatOf(_, _, _)
NatOf(txt, i, j) ==
    IF i >= j THEN 0 ELSE NatOf(txt, i, j - 1) * 10 + DigitVal(txt[j - 1])

\* a number literal at i: digits, optionally followed by "." and digits
EvalNumber(txt, i) ==
    LET j == SkipDigits(txt, i)
    IN  IF At(txt, j) = "."
        THEN LET m == SkipDigits(txt, j + 1)
                 frac == IF m > j + 1 THEN DigitVal(txt[j + 1]) ELSE 0
             IN  [val |-> PyFloat(NatOf(txt, i, j) * 10 + frac), pos |-> m]
        ELSE [val |-> PyInt(NatOf(txt, i, j)), pos |-> j]

\* an operand at i: [val, pos]; val is an error when evaluation raises
EvalAtom(txt, i) ==
    LET c == At(txt, i)
    IN  IF c = "'"
        THEN LET j == FindQuote(txt, i + 1)
             IN  IF j > Len(txt) THEN [val |-> PyError("SyntaxError"), pos |-> j]
                 ELSE [val |-> PyStr(SubSeq(txt, i + 1, j - 1)), pos |-> j + 1]
        ELSE IF IsDigit(c) THEN EvalNumber(txt, i)
        ELSE IF c # "" /\ IsNameChar(c)
        THEN [val |-> PyError("NameError"), pos |-> SkipName(txt, i)]
        ELSE [val |-> PyError("SyntaxError"), pos |-> i]

Negate(v) ==
    IF v.t \in {"int", "float"} /\ v.k = "fin" THEN [v EXCEPT !.n = 0 - v.n]
    ELSE IF v.t = "error" THEN v
    ELSE PyError("TypeError")

\* an expression at i: an operand, or unary minus applied to one
EvalExpr(txt, i) ==
    IF At(txt, i) = "-"
    THEN LET r == EvalAtom(txt, i + 1) IN [val |-> Negate(r.val), pos |-> r.pos]
    ELSE EvalAtom(txt, i)

EvalOk(d) == [ok |-> TRUE, dict |-> d, err |-> ""]

EvalRaise(name) == [ok |-> FALSE, dict |-> <<>>, err |-> name]

\* the items of a dict display from position i on, added to acc
RECURSIVE EvalItems(_, _, _)
EvalItems(txt, i, acc) ==
    LET kr == EvalExpr(txt, i)
    IN  IF IsError(kr.val) THEN EvalRaise(kr.val.k)
        ELSE IF kr.val.t # "str" \/ At(txt, kr.pos) # ":" \/ At(txt, kr.pos + 1) # " "
        THEN EvalRaise("SyntaxError")
        ELSE LET vr == EvalExpr(txt, kr.pos + 2)
                 acc2 == Put(acc, kr.val.s, vr.val)
             IN  IF IsError(vr.val) THEN EvalRaise(vr.val.k)
                 ELSE IF At(txt, vr.pos) = "}" /\ vr.pos = Len(txt) THEN EvalOk(acc2)
                 ELSE IF At(txt, vr.pos) = "," /\ At(txt, vr.pos + 1) = " "
                 THEN EvalItems(txt, vr.pos + 2, acc2)
                 ELSE EvalRaise("SyntaxError")

\* eval(s) at strategy.py:123-124: [ok, dict, err]
Eval(txt) ==
    IF At(txt, 1) # "{" THEN EvalRaise("SyntaxError")
    ELSE IF Len(txt) = 2 /\ txt[2] = "}" THEN EvalOk(<<>>)
    ELSE EvalItems(txt, 2, <<>>)

-----------------------------------------------------------------------------
(* Bounds and input pools.                                                 *)

\* longest price history
MaxRows == 2

\* longest list of candidate values swept for one parameter
MaxSweep == 2

\* close prices
Closes == {1, 2}

\* price histories: rows [ts, close], timestamps 1..r in order
Histories ==
    UNION {{[i \in 1..r |-> [ts |-> i, close |-> c[i]]] : c \in [1..r -> Closes]}
           : r \in 0..MaxRows}

\* parameter names
Pn == <<"n">>

Pm == <<"m">>

\* candidate values of the numeric parameter n, in sweep order
NCandidates == <<PyInt(1), PyInt(2), PyFloat(15), PyInf>>

\* values a fixed (not swept) parameter m is given
MValues == {PyStr(<<"x">>), PyStr(<<"i", "n", "f">>), PyInt(-1), PyFloat(-25)}

\* the elements of seq at the positions in S, in order, from position i on
RECURSIVE Pick(_, _, _)
Pick(seq, S, i) ==
    IF i > Len(seq) THEN <<>>
    ELSE (IF i \in S THEN <<seq[i]>> ELSE <<>>) \o Pick(seq, S, i + 1)

\* the non-empty sub-sequences of seq of at most MaxSweep elements
SubLists(seq) ==
    {Pick(seq, S, 1) : S \in {S \in SUBSET (1..Len(seq)) : Cardinality(S) \in 1..MaxSweep}}

\* a ParameterSpec: ordered [key, vals]; a fixed scalar is a one-element vals
SweepOf(key, vals) == <<[key |-> key, vals |-> vals]>>

-----------------------------------------------------------------------------
(* finlab_crypto.utility helpers used by strategy.py.                      *)

\* every assignment of rest, with key = each value of vs in turn put first
RECURSIVE Over(_, _, _)
Over(key, vs, rest) ==
    IF vs = <<>> THEN <<>>
    ELSE [j \in 1..Len(rest) |-> <<[key |-> key, val |-> Head(vs)]>> \o rest[j]]
         \o Over(key, Tail(vs), rest)

\* enumerate_variables: the Cartesian product in declared key order, first
\* key outermost; no assignment at all for an empty spec
RECURSIVE Product(_)
Product(spec) ==
    IF spec = <<>> THEN << <<>> >>
    ELSE Over(Head(spec).key, Head(spec).vals, Product(Tail(spec)))

enumerate_variables(spec) == IF spec = <<>> THEN <<>> ELSE Product(spec)

\* remove_pd_object: the assignment without its pandas-object values
RECURSIVE remove_pd_object(_)
remove_pd_object(v) ==
    IF v = <<>> THEN <<>>
    ELSE (IF Head(v).val.t = "pd" THEN <<>> ELSE <<Head(v)>>)
         \o remove_pd_object(Tail(v))

-----------------------------------------------------------------------------
(* A Filter or Strategy instance: the attributes setattr wrote (attrs),    *)
(* _variables, the decorator's default_parameters and the kind of the      *)
(* wrapped user function.                                                  *)

\* set_parameters (strategy.py:68-81 and 177-190)
RECURSIVE SetAttrs(_, _)
SetAttrs(attrs, variables) ==
    IF variables = <<>> THEN attrs
    ELSE SetAttrs(Put(attrs, Head(variables).key, Head(variables).val), Tail(variables))

set_parameters(self, variables) ==
    [self EXCEPT !.attrs = SetAttrs(self.attrs, variables), !.variables = variables]

\* __init__ (strategy.py:61-66 and 170-175)
NewInstance(func, default_parameters) ==
    set_parameters([attrs |-> <<>>, variables |-> <<>>,
                    defaults |-> default_parameters, func |-> func],
                   default_parameters)

Attr(self, name) == IF HasKey(self.attrs, name) THEN Get(self.attrs, name) ELSE Unset

-----------------------------------------------------------------------------
(* The user functions wrapped by the decorators.  They read self.n.        *)

\* close > n for a close price and a parameter value
Gt(close, v) ==
    IF v.t = "int" THEN close > v.n
    ELSE IF v.t = "float" /\ v.k = "fin" THEN close * 10 > v.n
    ELSE FALSE

Lt(close, v) ==
    IF v.t = "int" THEN close < v.n
    ELSE IF v.t = "float" /\ v.k = "fin" THEN close * 10 < v.n
    ELSE v.t = "float" /\ v.k = "inf"

ReadError(v) ==
    IF v.t = "unset" THEN "AttributeError"
    ELSE IF v.t \notin {"int", "float"} THEN "TypeError"
    ELSE ""

\* a filter function: ohlcv.close > self.n, with a figure drawn from n;
\* func "pair" returns (column, figures), func "bare" the column alone
FilterFunc(self, ohlcv) ==
    LET n == Attr(self, Pn)
    IN  [err |-> ReadError(n),
         col |-> [t \in 1..Len(ohlcv) |-> Gt(ohlcv[t].close, n)],
         fig |-> <<[key |-> "figures",
                    val |-> <<[key |-> <<"i", "d", "x">>, val |-> n]>>]>>]

\* a strategy function: enter at or above n, exit below n, no figures
StrategyFunc(self, ohlcv) ==
    LET n == Attr(self, Pn)
    IN  [err |-> ReadError(n),
         entries |-> [t \in 1..Len(ohlcv) |-> ~Lt(ohlcv[t].close, n)],
         exits |-> [t \in 1..Len(ohlcv) |-> Lt(ohlcv[t].close, n)],
         fig |-> <<>>]

-----------------------------------------------------------------------------
(* Filter.create(variables) -> ret_f(ohlcv)   (strategy.py:100-129)        *)

\* the loop of strategy.py:108-118 over the assignments still to run.
\* acc: the instance, the signals dict (key text -> column), fig_data, the
\* bundles the function returned so far and the error raised, if any
RECURSIVE SweepLoop(_, _, _)
SweepLoop(acc, todo, ohlcv) ==
    IF todo = <<>> \/ acc.err # "" THEN acc
    ELSE LET self == set_parameters(acc.self, Head(todo))
             results == FilterFunc(self, ohlcv)
             key == DictStr(remove_pd_object(Head(todo)))
             ran == [acc EXCEPT !.self = self, !.calls = acc.calls + 1]
         IN  IF results.err # "" THEN [ran EXCEPT !.err = results.err]
             ELSE IF self.func = "pair"
             THEN SweepLoop([ran EXCEPT !.signals = Put(acc.signals, key, results.col),
                                        !.fig_data = results.fig,
                                        !.bundles = Append(acc.bundles, results.fig)],
                            Tail(todo), ohlcv)
             \* a bare Series is Iterable too: it is unpacked into two names,
             \* which needs exactly two rows and stores a scalar, not a column
             ELSE IF Len(results.col) # 2 THEN [ran EXCEPT !.err = "ValueError"]
             ELSE SweepLoop([ran EXCEPT !.signals = Put(acc.signals, key, <<results.col[1]>>),
                                        !.scalars = TRUE],
                            Tail(todo), ohlcv)

NoColumns(err) == [err |-> err, names |-> <<>>, labels |-> <<>>]

\* Index.map infers one dtype per level: a level holding ints and floats is
\* a float level
LevelIsFloat(decoded, name) ==
    /\ \A i \in 1..Len(decoded) : Get(decoded[i].dict, name).t \in {"int", "float"}
    /\ \E i \in 1..Len(decoded) : Get(decoded[i].dict, name).t = "float"

\* a value as its level holds it
LevelValue(v, isFloat) == IF isFloat /\ v.t = "int" THEN PyFloat(10 * v.n) ELSE v

\* the level names and one tuple of values per column (strategy.py:124-126)
DecodeLabels(param_names, decoded) ==
    IF \E i \in 1..Len(decoded), j \in 1..Len(param_names) :
           ~HasKey(decoded[i].dict, param_names[j])
    THEN NoColumns("KeyError")
    \* MultiIndex.from_tuples([], names=[]): no levels to build an index from
    ELSE IF param_names = <<>> THEN NoColumns("ValueError")
    ELSE [err |-> "", names |-> param_names,
          labels |-> [i \in 1..Len(decoded) |->
                        [j \in 1..Len(param_names) |->
                           LevelValue(Get(decoded[i].dict, param_names[j]),
                                      LevelIsFloat(decoded, param_names[j]))]]]

\* decoded: eval of every key, in column order; the first eval that raises ends the call
DecodeAll(decoded) ==
    \* signals.columns[0] of a table without columns
    IF decoded = <<>> THEN NoColumns("IndexError")
    ELSE IF \E i \in 1..Len(decoded) : ~decoded[i].ok
    THEN NoColumns(decoded[CHOOSE i \in 1..Len(decoded) :
                             /\ ~decoded[i].ok
                             /\ \A j \in 1..(i - 1) : decoded[j].ok].err)
    ELSE DecodeLabels(Keys(decoded[1].dict), decoded)

\* strategy.py:123-127: the MultiIndex decoded from the keys by eval
DecodeColumns(keys) == DecodeAll([i \in 1..Len(keys) |-> Eval(keys[i])])

\* the sweep without the fallback to the default parameters
FilterNoFallback(self, variables) == enumerate_variables(variables)

\* the fallback of strategy.py:102-104
FilterAssignments(self, variables) ==
    LET variable_enumerate == enumerate_variables(variables)
    IN  IF Len(variable_enumerate) = 0
        THEN Append(variable_enumerate, self.defaults)
        ELSE variable_enumerate

NoTable == [names |-> <<>>, cols |-> <<>>]

\* what ret_f raises: in the loop, in pd.DataFrame (scalars without an index)
\* or in decoding the keys
RetError(done, cols) ==
    IF done.err # "" THEN done.err
    ELSE IF done.scalars THEN "ValueError"
    ELSE cols.err

\* strategy.py:120-129
RetResult(done, variable_enumerate, cols, err) ==
    [self |-> done.self,
     err |-> err,
     variable_enumerate |-> variable_enumerate,
     calls |-> done.calls,
     keys |-> Keys(done.signals),
     bundles |-> done.bundles,
     signals |-> IF err # "" THEN NoTable
                 ELSE [names |-> cols.names,
                       cols |-> [i \in 1..Len(done.signals) |->
                                   [label |-> cols.labels[i],
                                    data |-> done.signals[i].val]]],
     fig_data |-> IF err # "" THEN <<>> ELSE done.fig_data]

RetDecode(done, variable_enumerate, cols) ==
    RetResult(done, variable_enumerate, cols, RetError(done, cols))

RetFinish(done, variable_enumerate) ==
    RetDecode(done, variable_enumerate, DecodeColumns(Keys(done.signals)))

\* ret_f(ohlcv): the instance afterwards and what the call returned or raised
RetRun(self, variable_enumerate, ohlcv) ==
    RetFinish(SweepLoop([self |-> self, signals |-> <<>>, fig_data |-> <<>>,
                         bundles |-> <<>>, calls |-> 0, scalars |-> FALSE, err |-> ""],
                        variable_enumerate, ohlcv),
              variable_enumerate)

ret_f(self, variables, ohlcv) == RetRun(self, FilterAssignments(self, variables), ohlcv)

-----------------------------------------------------------------------------
(* Strategy._add_filters   (strategy.py:257-276)                           *)
(* A table is [names, cols]: the level names of its column MultiIndex and  *)
(* its columns [label, data], label holding one value per level.           *)

\* vbt.tile(n): the whole column sequence n times over
vbt_tile(cols, n) ==
    [i \in 1..(Len(cols) * n) |-> cols[((i - 1) % Len(cols)) + 1]]

\* a wrong repeat: the columns tiled
RepeatAsTile(cols, n) == vbt_tile(cols, n)

\* vbt.repeat(n): each column n times in a row
vbt_repeat(cols, n) ==
    [i \in 1..(Len(cols) * n) |-> cols[((i - 1) \div n) + 1]]

\* == on two label values: an int equals the float of the same number
ValueEq(a, b) ==
    IF a.t \in {"int", "float"} /\ b.t \in {"int", "float"} /\ a.k = "fin" /\ b.k = "fin"
    THEN (IF a.t = "int" THEN 10 * a.n ELSE a.n) = (IF b.t = "int" THEN 10 * b.n ELSE b.n)
    ELSE a = b

\* pd.Index.equals on the column indexes of two tables of as many columns:
\* the same values column by column, whatever the level names
IndexEquals(left, right) ==
    \A i \in 1..Len(left) :
        /\ Len(left[i].label) = Len(right[i].label)
        /\ \A l \in 1..Len(left[i].label) : ValueEq(left[i].label[l], right[i].label[l])

\* levels j and k carry the same name and the same values
SameLevel(names, cols, j, k) ==
    /\ names[j] = names[k]
    /\ \A i \in 1..Len(cols) : ValueEq(cols[i].label[j], cols[i].label[k])

\* the levels drop_duplicate_levels(keep='last') leaves: a level goes when a
\* later one repeats its name and values
KeptLevels(names, cols) ==
    {j \in 1..Len(names) : ~\E k \in (j + 1)..Len(names) : SameLevel(names, cols, j, k)}

KeepLevels(names, cols, K) ==
    [names |-> Pick(names, K, 1),
     cols |-> [i \in 1..Len(cols) |->
                 [label |-> Pick(cols[i].label, K, 1), data |-> cols[i].data]]]

drop_duplicate_levels(names, cols) == KeepLevels(names, cols, KeptLevels(names, cols))

\* stack_indexes on the column indexes, left on top.  drop_redundant_levels
\* has nothing to drop: it takes unnamed one-value levels and default
\* 0..n-1 ranges, and every level here carries a parameter's name
stack_indexes(left, right, data) ==
    drop_duplicate_levels(left.names \o right.names,
                          [i \in 1..Len(data) |->
                             [label |-> left.cols[i].label \o right.cols[i].label,
                              data |-> data[i]]])

\* np.logical_and column by column
AndData(left, right) ==
    [i \in 1..Len(left) |->
        [t \in 1..Len(left[i].data) |-> left[i].data[t] /\ right[i].data[t]]]

\* a.vbt & b.vbt for two tables of as many columns (broadcast with
\* columns_from='stack'): the data combined elementwise; the column index is
\* the right one (the last equal index) when the two are equal, else the two
\* stacked
vbt_and(left, right) ==
    IF IndexEquals(left.cols, right.cols)
    THEN [names |-> right.names,
          cols |-> [i \in 1..Len(left.cols) |->
                      [label |-> right.cols[i].label,
                       data |-> AndData(left.cols, right.cols)[i]]]]
    ELSE stack_indexes(left, right, AndData(left.cols, right.cols))

\* strategy.py:258
PrefixNames(fname, names) == [j \in 1..Len(names) |-> fname \o <<"_">> \o names[j]]

\* strategy.py:259
AddEntries(entries, filter_df) ==
    vbt_and([names |-> filter_df.names, cols |-> vbt_tile(filter_df.cols, Len(entries.cols))],
            [names |-> entries.names, cols |-> vbt_repeat(entries.cols, Len(filter_df.cols))])

\* wrong exits: tiled, so that a position mixes two strategy variants
ExitsTiled(exits, filter_df) == vbt_tile(exits.cols, Len(filter_df.cols))

\* strategy.py:260
AddExits(exits, filter_df) == vbt_repeat(exits.cols, Len(filter_df.cols))

\* strategy.py:261: exits.columns = entries.columns
Relabel(cols, like) == [i \in 1..Len(cols) |-> [label |-> like[i].label, data |-> cols[i].data]]

\* strategy.py:268-269 and 273-274: every figure of one category, re-keyed
RECURSIVE MergeFigures(_, _, _)
MergeFigures(into, fname, figs) ==
    IF figs = <<>> THEN into
    ELSE MergeFigures(Put(into, fname \o <<"_">> \o Head(figs).key, Head(figs).val),
                      fname, Tail(figs))

\* strategy.py:265-269 / 270-274 for one of the two categories
MergeCategory(fig_data, category, fname, filter_figures) ==
    IF ~HasKey(filter_figures, category) THEN fig_data
    ELSE Put(fig_data, category,
             MergeFigures(IF HasKey(fig_data, category) THEN Get(fig_data, category) ELSE <<>>,
                          fname, Get(filter_figures, category)))

\* strategy.py:264-274
MergeBundle(fig_data, fname, f) ==
    IF f.none THEN fig_data
    ELSE MergeCategory(MergeCategory(fig_data, "figures", fname, f.figs),
                       "overlaps", fname, f.figs)

\* one turn of the loop: acc is [entries, exits, fig_data]
AddFilterCols(acc, fname, f, new_entries) ==
    [entries |-> new_entries,
     exits |-> [names |-> new_entries.names,
                cols |-> Relabel(AddExits(acc.exits, f.df), new_entries.cols)],
     fig_data |-> MergeBundle(acc.fig_data, fname, f)]

\* strategy.py:258: the filter's table with its level names prefixed
SetNames(fname, filter_df) == [filter_df EXCEPT !.names = PrefixNames(fname, filter_df.names)]

AddFilter(acc, fname, f) ==
    AddFilterCols(acc, fname, f, AddEntries(acc.entries, SetNames(fname, f.df)))

\* filters: ordered dict fname -> [df, figs, none]
RECURSIVE AddFilterLoop(_, _)
AddFilterLoop(acc, filters) ==
    IF filters = <<>> THEN acc
    ELSE AddFilterLoop(AddFilter(acc, Head(filters).key, Head(filters).val), Tail(filters))

_add_filters(entries, exits, fig_data, filters) ==
    AddFilterLoop([entries |-> entries, exits |-> exits, fig_data |-> fig_data], filters)

-----------------------------------------------------------------------------
(* Strategy.backtest   (strategy.py:304-408) and the steps it calls.       *)

SlStop == <<"s", "l", "_", "s", "t", "o", "p">>

TsStop == <<"t", "s", "_", "s", "t", "o", "p">>

TpStop == <<"t", "p", "_", "s", "t", "o", "p">>

\* strategy.py:358
exit_vars == <<SlStop, TsStop, TpStop>>

\* strategy.py:360-363: acc is [without_stop, stop_vars]
RECURSIVE SplitStops(_, _, _)
SplitStops(acc, variables, names) ==
    IF names = <<>> THEN acc
    ELSE IF HasKey(acc.without_stop, Head(names))
    THEN SplitStops([without_stop |-> Pop(acc.without_stop, Head(names)),
                     stop_vars |-> Put(acc.stop_vars, Head(names), Get(variables, Head(names)))],
                    variables, Tail(names))
    ELSE SplitStops(acc, variables, Tail(names))

\* a parameter spec as a dict: key -> candidate values
SpecDict(spec) == [i \in 1..Len(spec) |-> [key |-> spec[i].key, val |-> spec[i].vals]]

DictSpec(d) == [i \in 1..Len(d) |-> [key |-> d[i].key, vals |-> d[i].val]]

\* rows[start:] with Python's slice rules for a negative or too large start
SliceFrom(rows, start) ==
    SubSeq(rows,
           (IF start < 0 THEN (IF Len(rows) + start < 0 THEN 0 ELSE Len(rows) + start)
            ELSE IF start > Len(rows) THEN Len(rows) ELSE start) + 1,
           Len(rows))

\* strategy.py:365: ohlcv.iloc[-lookback:] if lookback else ohlcv
Lookback(ohlcv, lookback) ==
    IF ~lookback.none /\ lookback.n # 0 THEN SliceFrom(ohlcv, 0 - lookback.n) ELSE ohlcv

\* strategy.py:367-370
StrategyAssignments(self, without_stop) ==
    IF enumerate_variables(DictSpec(without_stop)) = <<>>
    THEN <<self.defaults>>
    ELSE enumerate_variables(DictSpec(without_stop))

\* enumerate_signal (finlab_crypto.utility): the strategy function run once
\* per assignment, each assignment made the instance's parameter state first.
\* acc: the instance, the entries and exits columns, the error raised
SignalStep(acc, self, label, results) ==
    [self |-> self, err |-> results.err, calls |-> acc.calls + 1,
     entries |-> Append(acc.entries, [label |-> label, data |-> results.entries]),
     exits |-> Append(acc.exits, [label |-> label, data |-> results.exits])]

SignalRun(acc, self, label, ohlcv) == SignalStep(acc, self, label, StrategyFunc(self, ohlcv))

RECURSIVE SignalLoop(_, _, _)
SignalLoop(acc, todo, ohlcv) ==
    IF todo = <<>> \/ acc.err # "" THEN acc
    ELSE SignalLoop(SignalRun(acc, set_parameters(acc.self, Head(todo)),
                              Vals(Head(todo)), ohlcv),
                    Tail(todo), ohlcv)

enumerate_signal(ohlcv, self, variable_enumerate) ==
    SignalLoop([self |-> self, err |-> "", calls |-> 0, entries |-> <<>>, exits |-> <<>>],
               variable_enumerate, ohlcv)

\* _enumerate_filters (strategy.py:224-230): every filter called in turn on
\* the one Filter instance.  acc: the instance, the dict fname -> [df, figs,
\* none], the assignments each filter ran and the error raised
EnumerateOne(acc, fname, r) ==
    [self |-> r.self,
     err |-> r.err,
     ret |-> Put(acc.ret, fname, [df |-> r.signals, figs |-> r.fig_data, none |-> FALSE]),
     ran |-> Append(acc.ran, r.variable_enumerate),
     calls |-> Append(acc.calls, r.calls)]

RECURSIVE EnumerateFilters(_, _, _)
EnumerateFilters(acc, filters, ohlcv) ==
    IF filters = <<>> \/ acc.err # "" THEN acc
    ELSE EnumerateFilters(
             EnumerateOne(acc, Head(filters).key, ret_f(acc.self, Head(filters).val, ohlcv)),
             Tail(filters), ohlcv)

_enumerate_filters(self, ohlcv, filters) ==
    EnumerateFilters([self |-> self, err |-> "", ret |-> <<>>, ran |-> <<>>, calls |-> <<>>],
                     filters, ohlcv)

\* stop_early (finlab_crypto.utility): with no stop parameter the tables pass
\* through; else a position opened by an entry is closed at the first bar
\* with its original exit or a stop condition (fractions in tenths, of the
\* entry price for sl_stop and tp_stop, of the running peak for ts_stop)
StopFraction(stop_vars, name) == Get(stop_vars, name)[1].n

StopHit(stop_vars, entry, peak, close) ==
    \/ HasKey(stop_vars, SlStop) /\ close * 10 <= entry * (10 - StopFraction(stop_vars, SlStop))
    \/ HasKey(stop_vars, TsStop) /\ close * 10 <= peak * (10 - StopFraction(stop_vars, TsStop))
    \/ HasKey(stop_vars, TpStop) /\ close * 10 >= entry * (10 + StopFraction(stop_vars, TpStop))

\* w: [open, entry, peak, out] after the bars before t
RECURSIVE StopWalk(_, _, _, _, _, _)
StopWalk(w, t, ohlcv, entries, exits, stop_vars) ==
    IF t > Len(ohlcv) THEN w.out
    ELSE IF w.open
    THEN IF exits[t] \/ StopHit(stop_vars, w.entry, w.peak, ohlcv[t].close)
         THEN StopWalk([open |-> FALSE, entry |-> 0, peak |-> 0, out |-> Append(w.out, TRUE)],
                       t + 1, ohlcv, entries, exits, stop_vars)
         ELSE StopWalk([w EXCEPT !.peak = IF ohlcv[t].close > w.peak
                                           THEN ohlcv[t].close ELSE w.peak,
                                 !.out = Append(w.out, FALSE)],
                       t + 1, ohlcv, entries, exits, stop_vars)
    ELSE IF entries[t]
    THEN StopWalk([open |-> TRUE, entry |-> ohlcv[t].close, peak |-> ohlcv[t].close,
                   out |-> Append(w.out, FALSE)],
                  t + 1, ohlcv, entries, exits, stop_vars)
    ELSE StopWalk([w EXCEPT !.out = Append(w.out, FALSE)],
                  t + 1, ohlcv, entries, exits, stop_vars)

stop_early(ohlcv, entries, exits, stop_vars) ==
    IF stop_vars = <<>> THEN [entries |-> entries, exits |-> exits]
    ELSE [entries |-> entries,
          exits |-> [names |-> exits.names,
                     cols |-> [i \in 1..Len(exits.cols) |->
                                 [label |-> exits.cols[i].label,
                                  data |-> StopWalk([open |-> FALSE, entry |-> 0, peak |-> 0,
                                                     out |-> <<>>],
                                                    1, ohlcv, entries.cols[i].data,
                                                    exits.cols[i].data, stop_vars)]]]]

\* what squeeze() makes of a DataFrame of that many rows and columns
Squeeze(nrows, ncols) ==
    IF nrows = 1 /\ ncols = 1 THEN "scalar"
    ELSE IF ncols = 1 THEN "series"
    ELSE IF nrows = 1 THEN "series_over_columns"
    ELSE "frame"

Squeezed(stopped, shape) ==
    [entries |-> stopped.entries, exits |-> stopped.exits, shape |-> shape]

\* _add_stops (strategy.py:299-302)
_add_stops(ohlcv, entries, exits, variables) ==
    Squeezed(stop_early(ohlcv, entries, exits, variables),
             Squeeze(Len(ohlcv), Len(entries.cols)))

NotRun == [ran |-> FALSE, rows |-> <<>>]

RanOn(rows) == [ran |-> TRUE, rows |-> rows]

\* strategy.py:356-370: the context of one backtest call
BacktestStart(strat0, filt0, ohlcv_lookback, split, variable_enumerate) ==
    [strat |-> strat0, filt |-> filt0, raised |-> "", returned |-> "",
     ohlcv_lookback |-> ohlcv_lookback,
     stop_vars |-> split.stop_vars,
     variable_enumerate |-> variable_enumerate,
     strategy_calls |-> 0,
     filter_enumerates |-> <<>>, filter_calls |-> <<>>,
     entries |-> NoTable, exits |-> NoTable, fig_data |-> <<>>, shape |-> "",
     variant_run |-> NotRun, filter_run |-> NotRun, stop_run |-> NotRun,
     simulator_run |-> NotRun]

\* strategy.py:372
BacktestSignalsOf(bt, r) ==
    [bt EXCEPT !.strat = r.self, !.raised = r.err, !.strategy_calls = r.calls,
               !.variant_run = RanOn(bt.ohlcv_lookback),
               !.entries = [names |-> Keys(bt.variable_enumerate[1]), cols |-> r.entries],
               !.exits = [names |-> Keys(bt.variable_enumerate[1]), cols |-> r.exits]]

BacktestSignals(bt) ==
    BacktestSignalsOf(bt, enumerate_signal(bt.ohlcv_lookback, bt.strat, bt.variable_enumerate))

\* strategy.py:376
BacktestCompose(bt, composed) ==
    [bt EXCEPT !.entries = composed.entries, !.exits = composed.exits,
               !.fig_data = composed.fig_data]

\* strategy.py:375
BacktestFiltersOf(bt, fs) ==
    IF fs.err # ""
    THEN [bt EXCEPT !.filt = fs.self, !.raised = fs.err, !.filter_enumerates = fs.ran,
                    !.filter_calls = fs.calls, !.filter_run = RanOn(bt.ohlcv_lookback)]
    ELSE BacktestCompose([bt EXCEPT !.filt = fs.self, !.filter_enumerates = fs.ran,
                                    !.filter_calls = fs.calls,
                                    !.filter_run = RanOn(bt.ohlcv_lookback)],
                         _add_filters(bt.entries, bt.exits, bt.fig_data, fs.ret))

\* strategy.py:374-376
BacktestFilters(bt, filters) ==
    IF bt.raised # "" \/ filters = <<>> THEN bt
    ELSE BacktestFiltersOf(bt, _enumerate_filters(bt.filt, bt.ohlcv_lookback, filters))

BacktestStopsOf(bt, r) ==
    [bt EXCEPT !.entries = r.entries, !.exits = r.exits, !.shape = r.shape,
               !.stop_run = RanOn(bt.ohlcv_lookback)]

\* strategy.py:378
BacktestStops(bt) ==
    IF bt.raised # "" THEN bt
    ELSE BacktestStopsOf(bt, _add_stops(bt.ohlcv_lookback, bt.entries, bt.exits, bt.stop_vars))

\* strategy.py:380-408, with plot=False and html=None
BacktestReturn(bt, signals, side) ==
    IF bt.raised # "" THEN bt
    ELSE IF signals THEN [bt EXCEPT !.returned = "signals"]
    ELSE IF side = "long"
    \* a 1x1 table was squeezed to a scalar, which has no fillna
    THEN IF bt.shape = "scalar" THEN [bt EXCEPT !.raised = "AttributeError"]
         ELSE [bt EXCEPT !.returned = "portfolio", !.simulator_run = RanOn(bt.ohlcv_lookback)]
    ELSE IF side = "short" THEN [bt EXCEPT !.raised = "Shorting is not support yet"]
    ELSE [bt EXCEPT !.raised = "side should be 'long' or 'short'"]

BacktestSplit(strat0, filt0, ohlcv, split, lookback) ==
    BacktestStart(strat0, filt0, Lookback(ohlcv, lookback), split,
                  StrategyAssignments(strat0, split.without_stop))

backtest(strat0, filt0, ohlcv, variables, filters, lookback, signals, side) ==
    BacktestReturn(
        BacktestStops(
            BacktestFilters(
                BacktestSignals(
                    BacktestSplit(strat0, filt0, ohlcv,
                                  SplitStops([without_stop |-> SpecDict(variables),
                                              stop_vars |-> <<>>],
                                             SpecDict(variables), exit_vars),
                                  lookback)),
                filters)),
        signals, side)

-----------------------------------------------------------------------------
(* The session: one call at a time on one Filter and one Strategy instance; *)
(* the caller drops a call's result before the next call.                   *)

Idle == [op |-> "none"]

\* parameter specs handed to Filter.create
FilterSpecs ==
    {<<>>}
    \cup {SweepOf(Pn, l) : l \in SubLists(NCandidates)}
    \cup {SweepOf(Pm, <<m>>) : m \in MValues}
    \cup {SweepOf(Pn, l) \o SweepOf(Pm, <<m>>) : l \in SubLists(NCandidates), m \in MValues}

\* default_parameters given to the decorators
DefaultChoices == {<<>>, <<[key |-> Pn, val |-> PyInt(1)]>>}

\* most variants (columns) of one input table of _add_filters
MaxVariants == 2

\* names of filters and of fields; a_b_n is both a + _ + b_n and a_b + _ + n
Fa == <<"a">>

Fab == <<"a", "_", "b">>

Tbn == <<"b", "_", "n">>

Tan == <<"a", "_", "n">>

\* the table a sweep of `field` over 1..count returns for a filter function
FilterTable(field, count, ohlcv) ==
    [names |-> <<field>>,
     cols |-> [j \in 1..count |->
                 [label |-> <<PyInt(j)>>,
                  data |-> FilterFunc([attrs |-> <<[key |-> Pn, val |-> PyInt(j)]>>],
                                      ohlcv).col]]]

\* the entries or exits table a sweep of `field` over 1..count returns
StrategyTable(field, count, ohlcv, which) ==
    [names |-> <<field>>,
     cols |-> [j \in 1..count |->
                 [label |-> <<PyInt(j)>>,
                  data |-> StrategyFunc([attrs |-> <<[key |-> Pn, val |-> PyInt(j)]>>],
                                        ohlcv)[which]]]]

\* what a filter function may return as figures: None, or a bundle
FigureChoices(art) ==
    {[none |-> TRUE, figs |-> <<>>],
     [none |-> FALSE, figs |-> <<[key |-> "markers", val |-> <<[key |-> Pn, val |-> art]>>]>>],
     [none |-> FALSE, figs |-> <<[key |-> "figures", val |-> <<[key |-> Pn, val |-> art]>>],
                                 [key |-> "overlaps", val |-> <<[key |-> Tbn, val |-> art]>>]>>]}

\* the items the filters dict may hold under the name fname, for a filter
\* whose parameter is one of fields
FilterItemsNamed(fname, fields, ohlcv) ==
    {[key |-> fname,
      val |-> [df |-> FilterTable(field, q, ohlcv), figs |-> fc.figs, none |-> fc.none]] :
        field \in fields, q \in 1..MaxVariants, fc \in FigureChoices(PyStr(fname))}

\* the filters dicts: one filter, or two under different names; filter a
\* sweeps n or b_n, filter a_b sweeps n
FilterDicts(ohlcv) ==
    {<<x>> : x \in FilterItemsNamed(Fa, {Pn, Tbn}, ohlcv) \cup FilterItemsNamed(Fab, {Pn}, ohlcv)}
    \cup {<<x, y>> : x \in FilterItemsNamed(Fa, {Pn, Tbn}, ohlcv),
                     y \in FilterItemsNamed(Fab, {Pn}, ohlcv)}
    \cup {<<x, y>> : x \in FilterItemsNamed(Fab, {Pn}, ohlcv),
                     y \in FilterItemsNamed(Fa, {Pn, Tbn}, ohlcv)}

\* the strategy's own fig_data
StrategyFigures ==
    {<<>>, <<[key |-> "figures", val |-> <<[key |-> Tan, val |-> PyStr(<<"s">>)]>>]>>}

\* candidate values of the strategy's parameter n
SCandidates == <<PyInt(1), PyInt(2)>>

\* the variables handed to backtest: a sweep of n or nothing, with or
\* without a stop-loss of 50%
StrategySpecs ==
    {sweep \o stop :
        sweep \in {<<>>} \cup {SweepOf(Pn, l) : l \in SubLists(SCandidates)},
        stop \in {<<>>, SweepOf(SlStop, <<PyFloat(5)>>)}}

\* the filters handed to backtest: name -> the spec given to Filter.create
BacktestFilterChoices ==
    {<<>>,
     <<[key |-> Fa, val |-> <<>>]>>,
     <<[key |-> Fa, val |-> SweepOf(Pn, <<PyInt(1), PyInt(2)>>)],
       [key |-> Fab, val |-> SweepOf(Pn, <<PyInt(2)>>)]>>}

None == [none |-> TRUE, n |-> 0]

\* the lookback argument: None or an int
Lookbacks == {None} \cup {[none |-> FALSE, n |-> n] : n \in 0..(MaxRows + 1)}

Sides == {"long", "short", "sideways"}

\* the variables handed to a direct call of set_parameters
DirectVariables == {<<>>, <<[key |-> Pm, val |-> PyStr(<<"x">>)]>>}

Init ==
    /\ \E d \in DefaultChoices, f \in {"pair", "bare"} : filt = NewInstance(f, d)
    /\ strat = NewInstance("strategy", <<[key |-> Pn, val |-> PyInt(1)]>>)
    /\ call = Idle

\* the state after a ret_f call that computed r
RetFDone(r, variables, ohlcv) ==
    /\ filt' = r.self
    /\ call' = [op |-> "ret_f", variables |-> variables, ohlcv |-> ohlcv,
                out |-> [r EXCEPT !.self = <<>>]]

\* your_filter.create(variables)(ohlcv)
RetF ==
    /\ call = Idle
    /\ \E variables \in FilterSpecs, ohlcv \in Histories :
         RetFDone(ret_f(filt, variables, ohlcv), variables, ohlcv)
    /\ UNCHANGED strat

\* your_filter.set_parameters(variables)
FilterSetParameters ==
    /\ call = Idle
    /\ \E variables \in DirectVariables : filt' = set_parameters(filt, variables)
    /\ UNCHANGED <<strat, call>>

\* your_strategy.set_parameters(variables)
StrategySetParameters ==
    /\ call = Idle
    /\ \E variables \in DirectVariables : strat' = set_parameters(strat, variables)
    /\ UNCHANGED <<filt, call>>

\* the caller is done with the result
Discard ==
    /\ call # Idle
    /\ call' = Idle
    /\ UNCHANGED <<filt, strat>>

\* Strategy._add_filters(entries, exits, fig_data, filters) on the tables of
\* a strategy sweep and of one or two filter sweeps over one history
AddFilters ==
    /\ call = Idle
    /\ \E ohlcv \in {h \in Histories : Len(h) = MaxRows},
          p \in 1..MaxVariants, field \in {Pn, Tan}, fig_data \in StrategyFigures :
         \E filters \in FilterDicts(ohlcv) :
           call' = [op |-> "_add_filters",
                    entries |-> StrategyTable(field, p, ohlcv, "entries"),
                    exits |-> StrategyTable(field, p, ohlcv, "exits"),
                    fig_data |-> fig_data,
                    filters |-> filters,
                    out |-> _add_filters(StrategyTable(field, p, ohlcv, "entries"),
                                         StrategyTable(field, p, ohlcv, "exits"),
                                         fig_data, filters)]
    /\ UNCHANGED <<filt, strat>>

NextCompose == AddFilters \/ Discard

SpecCompose == Init /\ [][NextCompose]_vars

\* the state after a backtest call that computed bt
BacktestDone(bt, inputs) ==
    /\ strat' = bt.strat
    /\ filt' = bt.filt
    /\ call' = [op |-> "backtest", ohlcv |-> inputs.ohlcv, variables |-> inputs.variables,
                filters |-> inputs.filters, lookback |-> inputs.lookback,
                signals |-> inputs.signals, side |-> inputs.side,
                out |-> [bt EXCEPT !.strat = <<>>, !.filt = <<>>]]

\* your_strategy.backtest(ohlcv, variables, filters, lookback, signals=..., side=...)
Backtest ==
    /\ call = Idle
    /\ \E ohlcv \in Histories, variables \in StrategySpecs,
          filters \in BacktestFilterChoices, lookback \in Lookbacks,
          signals \in BOOLEAN, side \in Sides :
         BacktestDone(backtest(strat, filt, ohlcv, variables, filters, lookback, signals, side),
                      [ohlcv |-> ohlcv, variables |-> variables, filters |-> filters,
                       lookback |-> lookback, signals |-> signals, side |-> side])

NextBacktest == Backtest \/ StrategySetParameters \/ Discard

SpecBacktest == Init /\ [][NextBacktest]_vars

NextSweep == RetF \/ FilterSetParameters \/ Discard

SpecSweep == Init /\ [][NextSweep]_vars

Next ==
    \/ RetF
    \/ AddFilters
    \/ Backtest
    \/ FilterSetParameters
    \/ StrategySetParameters
    \/ Discard

Spec == Init /\ [][Next]_vars

-----------------------------------------------------------------------------
(* Properties of the composition (_add_filters).                           *)

\* one variant chosen per filter
Choices(filters) ==
    {c \in [1..Len(filters) -> 1..MaxVariants] :
        \A k \in 1..Len(filters) : c[k] <= Len(filters[k].val.df.cols)}

\* the label of the column standing for strategy label slabel and variant
\* c[j] of each of the first k filters: the later filter's levels come first
RECURSIVE ComboLabel(_, _, _, _)
ComboLabel(filters, c, k, slabel) ==
    IF k = 0 THEN slabel
    ELSE filters[k].val.df.cols[c[k]].label \o ComboLabel(filters, c, k - 1, slabel)

\* the elementwise AND of the strategy column data with variant c[j] of each
\* of the first k filters
RECURSIVE ComboData(_, _, _, _)
ComboData(filters, c, k, sdata) ==
    IF k = 0 THEN sdata
    ELSE [t \in 1..Len(sdata) |->
            filters[k].val.df.cols[c[k]].data[t] /\ ComboData(filters, c, k - 1, sdata)[t]]

RECURSIVE VariantProduct(_)
VariantProduct(filters) ==
    IF filters = <<>> THEN 1
    ELSE Len(Head(filters).val.df.cols) * VariantProduct(Tail(filters))

\* the positions of the table whose column carries the label
Positions(table, label) == {i \in 1..Len(table.cols) : table.cols[i].label = label}

Composed == call.op = "_add_filters"

\* the level names of the fully stacked label of ComboLabel
RECURSIVE ComboNames(_, _, _)
ComboNames(filters, k, snames) ==
    IF k = 0 THEN snames
    ELSE PrefixNames(filters[k].key, filters[k].val.df.names) \o ComboNames(filters, k - 1, snames)

\* the combinations: a strategy variant and one variant of each filter
Combos == (1..Len(call.entries.cols)) \X Choices(call.filters)

\* the levels K of the stacked label of combination x
LabelOn(x, K) ==
    Pick(ComboLabel(call.filters, x[2], Len(call.filters), call.entries.cols[x[1]].label), K, 1)

\* the output columns are labelled by the levels K of the stacked labels:
\* every combination labels exactly one column of entries and of exits, and
\* two combinations never the same one
LabelledOn(K) ==
    /\ call.out.entries.names
         = Pick(ComboNames(call.filters, Len(call.filters), call.entries.names), K, 1)
    /\ \A x \in Combos :
         /\ Cardinality(Positions(call.out.entries, LabelOn(x, K))) = 1
         /\ Cardinality(Positions(call.out.exits, LabelOn(x, K))) = 1
    /\ \A x, y \in Combos : x # y => LabelOn(x, K) # LabelOn(y, K)

C2_EntriesAndExitsReplicated ==
    Composed =>
        \A s \in 1..Len(call.entries.cols), c \in Choices(call.filters) :
            \A i \in Positions(call.out.entries,
                               ComboLabel(call.filters, c, Len(call.filters),
                                          call.entries.cols[s].label)) :
                /\ call.out.entries.cols[i].data =
                       ComboData(call.filters, c, Len(call.filters), call.entries.cols[s].data)
                /\ call.out.exits.cols[i].data = call.exits.cols[s].data
                /\ call.out.exits.cols[i].label = call.out.entries.cols[i].label

\* a filter variant removes an entry of a strategy variant, and the two
\* strategy variants have different exits
C2_Witness ==
    /\ Composed
    /\ Len(call.entries.cols) = 2
    /\ call.exits.cols[1].data # call.exits.cols[2].data
    /\ \E i \in 1..Len(call.out.entries.cols), s \in 1..2, t \in 1..MaxRows :
         /\ call.out.exits.cols[i].data = call.exits.cols[s].data
         /\ call.entries.cols[s].data[t]
         /\ ~call.out.entries.cols[i].data[t]
         /\ call.out.entries.cols[i].label[Len(call.out.entries.cols[i].label)]
              = call.entries.cols[s].label[1]

Distinct(seq) == \A i, j \in 1..Len(seq) : i # j => seq[i] # seq[j]

\* C6: after composition no field name occurs twice among the levels of the
\* column labels, and no two columns carry the same label
C6_NoFieldNameCollision ==
    Composed =>
        /\ Distinct(call.out.entries.names)
        /\ Distinct([i \in 1..Len(call.out.entries.cols) |-> call.out.entries.cols[i].label])

\* the bundle holds the artifact under category / key
Holds(bundle, category, key, artifact) ==
    /\ HasKey(bundle, category)
    /\ HasKey(Get(bundle, category), key)
    /\ Get(Get(bundle, category), key) = artifact

\* C7: every category/name pair of every filter's bundle is in the output
\* bundle under the same category with the key <filter name>_<name>, and the
\* strategy's own entries of the bundle are kept
C7_EveryFilterArtifactKept ==
    Composed =>
        /\ \A k \in 1..Len(call.filters) :
             ~call.filters[k].val.none =>
                \A ci \in 1..Len(call.filters[k].val.figs) :
                    \A ni \in 1..Len(call.filters[k].val.figs[ci].val) :
                        Holds(call.out.fig_data,
                              call.filters[k].val.figs[ci].key,
                              call.filters[k].key \o <<"_">>
                                  \o call.filters[k].val.figs[ci].val[ni].key,
                              call.filters[k].val.figs[ci].val[ni].val)
        /\ \A ci \in 1..Len(call.fig_data) :
             \A ni \in 1..Len(call.fig_data[ci].val) :
                 Holds(call.out.fig_data, call.fig_data[ci].key,
                       call.fig_data[ci].val[ni].key, call.fig_data[ci].val[ni].val)

-----------------------------------------------------------------------------
(* Properties of a sweep run by Filter.create's ret_f.                     *)

Swept == call.op = "ret_f"

\* some key of the category of the bundle holds the artifact
Retrievable(bundle, category, artifact) ==
    /\ HasKey(bundle, category)
    /\ \E i \in 1..Len(Get(bundle, category)) : Get(bundle, category)[i].val = artifact

\* C3: when every invocation of a sweep returns a bundle, the bundle returned
\* with the table still holds, under some key of its category, every artifact
\* of every variant's bundle
C3_EveryVariantDiagnosticsKept ==
    (Swept /\ call.out.err = "") =>
        \A v \in 1..Len(call.out.bundles) :
            \A ci \in 1..Len(call.out.bundles[v]) :
                \A ni \in 1..Len(call.out.bundles[v][ci].val) :
                    Retrievable(call.out.fig_data, call.out.bundles[v][ci].key,
                                call.out.bundles[v][ci].val[ni].val)

\* C4: a sweep leaves the parameter state of the instance (the attributes
\* written by set_parameters, and _variables) as it was before the sweep
C4_SweepKeepsParameterState ==
    [][call'.op = "ret_f" => filt' = filt]_vars

\* C10: every assignment of a sweep is given back by decoding the key its
\* column is stored under, fields in declared order, and two different
\* assignments never share a key
C10_ColumnIdentityRoundTrip ==
    Swept =>
        /\ \A i \in 1..Len(call.out.variable_enumerate) :
             Eval(DictStr(call.out.variable_enumerate[i]))
                 = EvalOk(call.out.variable_enumerate[i])
        /\ \A i, j \in 1..Len(call.out.variable_enumerate) :
             call.out.variable_enumerate[i] # call.out.variable_enumerate[j]
                 => DictStr(call.out.variable_enumerate[i])
                        # DictStr(call.out.variable_enumerate[j])

-----------------------------------------------------------------------------
(* Properties of backtest.                                                 *)

Backtested == call.op = "backtest"

\* the call got as far as the return: no earlier step raised
ReachedReturn == Backtested /\ call.out.stop_run.ran

\* C5: a backtest with side='short' raises the shorting error, one with any
\* other side than 'long' or 'short' raises the invalid-side error, and neither
\* returns a result, whatever signals is
C5_BadSideAlwaysFails ==
    ReachedReturn =>
        /\ call.side = "short" => call.out.raised = "Shorting is not support yet"
        /\ call.side \notin {"long", "short"}
              => call.out.raised = "side should be 'long' or 'short'"
        /\ call.side # "long" => call.out.returned = ""

\* the keys of the variables that are not stop parameters
SweptKeys(variables) ==
    {i \in 1..Len(variables) : \A j \in 1..Len(exit_vars) : variables[i].key # exit_vars[j]}

\* C8: for an empty parameter spec the sweep is the one assignment of default
\* parameters, in backtest and in Filter.create alike; the list of assignments
\* is never empty and the signal function is invoked at least once
C8_EmptySpecFallsBackToDefaults ==
    Backtested =>
        /\ SweptKeys(call.variables) = {} => call.out.variable_enumerate = <<strat.defaults>>
        /\ call.out.variable_enumerate # <<>>
        /\ call.out.strategy_calls >= 1
        /\ \A k \in 1..Len(call.out.filter_enumerates) :
             /\ call.filters[k].val = <<>> => call.out.filter_enumerates[k] = <<filt.defaults>>
             /\ call.out.filter_enumerates[k] # <<>>
             /\ call.out.filter_calls[k] >= 1

\* only a stop parameter given, and a filter created without variables: both
\* ran on their defaults and the signals were returned
C8_Witness ==
    /\ Backtested
    /\ call.variables # <<>>
    /\ SweptKeys(call.variables) = {}
    /\ Len(call.filters) = 1
    /\ call.filters[1].val = <<>>
    /\ call.out.variable_enumerate = <<strat.defaults>>
    /\ call.out.filter_enumerates = <<<<filt.defaults>>>>
    /\ filt.defaults # <<>>
    /\ call.out.returned = "signals"

\* the most recent n rows, all of them when there are fewer
MostRecent(rows, n) ==
    SubSeq(rows, (IF Len(rows) > n THEN Len(rows) - n ELSE 0) + 1, Len(rows))

\* the rows the claim has every step run on
ClaimedRows == IF call.lookback.none THEN call.ohlcv ELSE MostRecent(call.ohlcv, call.lookback.n)

RanOnClaimed(step) == step.ran => step.rows = ClaimedRows

\* C9: for an integer lookback N >= 0 every step that runs (variant run,
\* filters, stop overlay, simulator) runs on exactly the most recent N rows,
\* and on the full history when lookback is None
C9_LookbackTruncatesEveryStep ==
    (Backtested /\ (call.lookback.none \/ call.lookback.n >= 0)) =>
        /\ RanOnClaimed(call.out.variant_run)
        /\ RanOnClaimed(call.out.filter_run)
        /\ RanOnClaimed(call.out.stop_run)
        /\ RanOnClaimed(call.out.simulator_run)

=============================================================================
